---- MODULE Spec2Model ----
(***************************************************************************)
(* Model of src/mac_everything.py: the SearchWindow of "Mac Everything".    *)
(* One control thread (the Qt event loop) dispatches the handlers; the     *)
(* search handler blocks in subprocess.run, so its position is part of the *)
(* state.  Display strings are sequences of character codes, so that the   *)
(* comparison of two labels is the comparison Qt makes on their text.      *)
(***************************************************************************)
EXTENDS Integers, Sequences, FiniteSets, TLC

VARIABLES
    text,              \* search_input.text()
    last_search_text,  \* self.last_search_text
    timer,             \* search_timer: Inactive, or the milliseconds left
    pc,                \* position of perform_search: "idle", "mdfind", "returned"
    query,             \* search_text of the last run of perform_search: the name
                       \*          filter handed to mdfind, empty when it only cleared
    process,           \* what subprocess.run and the os.stat calls answer
    rows,              \* top-level items of result_tree, in display order
    status,            \* status_label.text()
    sortColumn,        \* header().sortIndicatorSection()
    sortOrder,         \* header().sortIndicatorOrder()
    burst,             \* history: effective text changes whose search has not ended
    runs,              \* history: runs of perform_search since the burst began
    noop,              \* history: the last step was a call of on_search_text_changed
                       \*          with the text it had last observed
    reveal,            \* history: "failed" when the last step was a double click
                       \*          whose open -R did not succeed
    arg_bytes,         \* the argument of a call of format_size_kb on its own
    formatted          \* and what that call returned

vars == <<text, last_search_text, timer, pc, query, process, rows, status,
          sortColumn, sortOrder, burst, runs, noop, reveal, arg_bytes, formatted>>

----------------------------------------------------------------------------
(* Bounds of the model *)

MaxOut == 2
TickMs == 150
MaxBurst == 2
MaxRuns == 2
MaxSize == 3100

(* Program constants *)

TimerInterval == 300
KB == 1024

Inactive == 0 - 1

\* strings are sequences of character codes; the contents the text box is
\* given: "", " ", "a", " a", "a "
Texts == { <<>>, <<32>>, <<97>>, <<32, 97>>, <<97, 32>> }

----------------------------------------------------------------------------
(* str.strip(): leading and trailing whitespace removed *)

Whitespace == {9, 10, 11, 12, 13, 28, 29, 30, 31, 32}
IsSpace(c) == c \in Whitespace

RECURSIVE lstrip(_)
lstrip(s) == IF s # <<>> /\ IsSpace(Head(s)) THEN lstrip(Tail(s)) ELSE s

RECURSIVE rstrip(_)
rstrip(s) ==
    IF s # <<>> /\ IsSpace(s[Len(s)]) THEN rstrip(SubSeq(s, 1, Len(s) - 1)) ELSE s

lstrip_only(s) == lstrip(s)

strip(s) == rstrip(lstrip(s))

----------------------------------------------------------------------------
(* Display formatting: strings as sequences of character codes *)

Max(a, b) == IF a >= b THEN a ELSE b

RECURSIVE Digits(_)
Digits(n) == IF n < 10 THEN <<48 + n>> ELSE Digits(n \div 10) \o <<48 + (n % 10)>>

TwoDigits(n) == <<48 + ((n \div 10) % 10), 48 + (n % 10)>>

\* the "," format option: a comma between groups of three digits
RECURSIVE Grouped(_)
Grouped(n) ==
    IF n < 1000 THEN Digits(n)
    ELSE Grouped(n \div 1000) \o <<44>>
         \o <<48 + ((n \div 100) % 10), 48 + ((n \div 10) % 10), 48 + (n % 10)>>

format_size_kb_floor(size_in_bytes) ==
    Grouped(size_in_bytes \div KB) \o <<32, 75, 66>>

format_size_kb(size_in_bytes) ==
    LET kb_size == Max(1, size_in_bytes \div KB)
    IN  Grouped(kb_size) \o <<32, 75, 66>>

\* round-half-even of num/den, as the "f" presentation type rounds
RoundHalfEven(num, den) ==
    LET q == num \div den
        r == num % den
    IN  IF 2 * r > den \/ (2 * r = den /\ q % 2 = 1) THEN q + 1 ELSE q

Fixed(scaled, decimals) ==
    LET unit == IF decimals = 0 THEN 1 ELSE IF decimals = 1 THEN 10 ELSE 100
        frac == scaled % unit
    IN  Digits(scaled \div unit)
        \o (IF decimals = 0 THEN <<>>
            ELSE IF decimals = 1 THEN <<46, 48 + frac>>
            ELSE <<46>> \o TwoDigits(frac))

format_size_full(size_in_bytes) ==
    IF size_in_bytes < KB
    THEN Grouped(size_in_bytes) \o <<32, 66>>
    ELSE IF size_in_bytes < KB * KB
    THEN Fixed(RoundHalfEven(size_in_bytes, KB), 0) \o <<32, 75, 66>>
    ELSE IF size_in_bytes < KB * KB * KB
    THEN Fixed(RoundHalfEven(size_in_bytes * 10, KB * KB), 1) \o <<32, 77, 66>>
    ELSE Fixed(RoundHalfEven(size_in_bytes * 100, KB * KB * KB), 2) \o <<32, 71, 66>>

\* "%Y/%m/%d %H:%M" of a timestamp in January 1970, local time taken as UTC
format_time(timestamp) ==
    LET days == timestamp \div 86400
        secs == timestamp % 86400
    IN  <<49, 57, 55, 48, 47, 48, 49, 47>> \o TwoDigits(1 + days) \o <<32>>
        \o TwoDigits(secs \div 3600) \o <<58>> \o TwoDigits((secs % 3600) \div 60)

----------------------------------------------------------------------------
(* Paths, the facility's answers, the attribute accessor's answers *)

\* the paths the facility can name: "/d/a", "/d/B", "/d/c"
Paths == { <<47, 100, 47, 97>>, <<47, 100, 47, 66>>, <<47, 100, 47, 99>> }

\* the index of the last "/" of a path, 0 when it has none
LastSlash(path) ==
    LET at == {i \in 1..Len(path) : path[i] = 47}
    IN  IF at = {} THEN 0 ELSE CHOOSE i \in at : \A j \in at : j <= i

RECURSIVE rstrip_slash(_)
rstrip_slash(s) ==
    IF s # <<>> /\ s[Len(s)] = 47 THEN rstrip_slash(SubSeq(s, 1, Len(s) - 1)) ELSE s

\* os.path.basename, os.path.dirname (posixpath.split)
basename(path) == SubSeq(path, LastSlash(path) + 1, Len(path))
dirname(path) ==
    LET head == SubSeq(path, 1, LastSlash(path))
    IN  IF \A i \in 1..Len(head) : head[i] = 47 THEN head ELSE rstrip_slash(head)

\* the lines of the facility's output: a path, an empty line, a line of one space
BlankLines == { <<>>, <<32>> }
Lines == Paths \cup BlankLines

\* the files on disk: size and modification time of each path, when it is
\* there and may be read
FileAttrs(path) ==
    IF path = <<47, 100, 47, 97>> THEN [st_size |-> 2048, st_mtime |-> 60]
    ELSE IF path = <<47, 100, 47, 66>> THEN [st_size |-> 10240, st_mtime |-> 61]
    ELSE [st_size |-> 2100, st_mtime |-> 3600]

StatOk(a) == [err |-> "", st_size |-> a.st_size, st_mtime |-> a.st_mtime]
StatErr(e) == [err |-> e, st_size |-> 0, st_mtime |-> 0]

\* the failures of os.stat: does not exist, permission denied, any other
Unreadable == {"FileNotFoundError", "PermissionError"}
StatOutcomes == {""} \cup Unreadable \cup {"OSError"}

\* os.stat(path): the attributes of the file, or the exception raised
os_stat(path, outcome) ==
    IF outcome = "" THEN StatOk(FileAttrs(path)) ELSE StatErr(outcome)

Diagnostics == { <<101, 114, 114>> }

NoProcess ==
    [returncode |-> 0, stdout |-> <<>>, stderr |-> <<>>, stat |-> <<>>, exc |-> ""]

\* subprocess.run raises: the facility cannot be started
RunRaises == [NoProcess EXCEPT !.exc = "FileNotFoundError"]

----------------------------------------------------------------------------
(* Status line texts, as the code writes them *)

StatusEmpty == <<>>
StatusSearching == <<27491, 22312, 25628, 32034, 46, 46, 46>>
FoundPrefix == <<25214, 21040, 32>>
FoundSuffix == <<32, 20010, 32467, 26524>>
StatusFound(count) == FoundPrefix \o Digits(count) \o FoundSuffix
StatusNoResults == <<26410, 25214, 21040, 32467, 26524>>
SearchErrorPrefix == <<25628, 32034, 20986, 38169, 58, 32>>
StatusSearchError(msg) == SearchErrorPrefix \o msg
SearchFailed(stderr) == <<25628, 32034, 22833, 36133, 58, 32>> \o stderr
FileSizePrefix == <<25991, 20214, 22823, 23567, 58, 32>>
StatusFileSize(size_bytes) == FileSizePrefix \o format_size_full(size_bytes)
OpenFailedPrefix == <<25171, 24320, 25991, 20214, 22833, 36133, 58, 32>>
StatusOpenFailed(msg) == OpenFailedPrefix \o msg

\* str(e) of an exception raised by os.stat or by subprocess.run
StrOfError(e) == <<91, 69, 114, 114, 110, 111, 93>>

IsPrefix(p, s) == Len(p) <= Len(s) /\ SubSeq(s, 1, Len(p)) = p
Contains(s, part) ==
    \E i \in 0..(Len(s) - Len(part)) : SubSeq(s, i + 1, i + Len(part)) = part

----------------------------------------------------------------------------
(* Rows of the table and their order *)

\* item = QTreeWidgetItem(); setText(0..3); setData(0, 2, 3, UserRole)
NewItem(path, st) ==
    [ text  |-> << basename(path), dirname(path),
                   format_size_kb(st.st_size), format_time(st.st_mtime) >>,
      path  |-> path,
      size  |-> st.st_size,
      mtime |-> st.st_mtime ]

\* s < t for two strings: code unit by code unit, a proper prefix is smaller
LexLess(s, t) ==
    \E k \in 1..(Len(t)) :
        /\ k <= Len(s) + 1
        /\ SubSeq(s, 1, k - 1) = SubSeq(t, 1, k - 1)
        /\ (k = Len(s) + 1 \/ s[k] < t[k])

\* the comparison the rows are sorted by: the items are plain QTreeWidgetItem,
\* whose operator< compares the display text of the sort column
ItemLess(a, b, column) == LexLess(a.text[column + 1], b.text[column + 1])

\* __lt__ as FileTreeWidget defines it (on the widget, not on the items)
FileTreeWidget_lt(a, b, column) ==
    IF column = 2 THEN a.size < b.size
    ELSE IF column = 3 THEN a.mtime < b.mtime
    ELSE LexLess(a.text[column + 1], b.text[column + 1])

Before(a, b, column, order) ==
    IF order = "Ascending" THEN ItemLess(a, b, column) ELSE ItemLess(b, a, column)

\* x goes before the first element it is smaller than (stable)
InsertSorted(acc, x, column, order) ==
    LET later == {k \in 1..Len(acc) : Before(x, acc[k], column, order)}
        at == IF later = {} THEN Len(acc) + 1
              ELSE CHOOSE k \in later : \A j \in later : k <= j
    IN  SubSeq(acc, 1, at - 1) \o <<x>> \o SubSeq(acc, at, Len(acc))

RECURSIVE SortFrom(_, _, _, _, _)
SortFrom(items, i, acc, column, order) ==
    IF i > Len(items) THEN acc
    ELSE SortFrom(items, i + 1, InsertSorted(acc, items[i], column, order),
                  column, order)

\* the sort of the top-level items by the header's sort indicator
SortItems(items, column, order) == SortFrom(items, 1, <<>>, column, order)

Columns == 0..3

----------------------------------------------------------------------------
(* The state after SearchWindow.__init__ *)

\* the window as __init__ leaves it
Constructed ==
    /\ text = <<>>
    /\ last_search_text = <<>>
    /\ timer = Inactive
    /\ pc = "idle"
    /\ query = <<>>
    /\ process = NoProcess
    /\ rows = <<>>
    /\ status = StatusEmpty
    /\ sortColumn = 0
    /\ sortOrder = "Descending"
    /\ burst = 0
    /\ runs = 0
    /\ noop = FALSE
    /\ reveal = ""

Init ==
    /\ Constructed
    /\ arg_bytes = 0
    /\ formatted = <<>>

----------------------------------------------------------------------------
(* The debouncer *)

NeverUnchanged(t) == FALSE

AlwaysUnchanged(t) == TRUE

\* if text == self.last_search_text: return
TextUnchanged(t) == t = last_search_text

\* textChanged(t) is delivered: the text box holds t
on_search_text_changed(t) ==
    /\ pc = "idle"
    /\ text' = t
    /\ noop' = (t = last_search_text)
    /\ reveal' = ""
    /\ UNCHANGED <<arg_bytes, formatted>>
    /\ IF TextUnchanged(t)
       THEN UNCHANGED <<last_search_text, timer, burst, runs>>
       ELSE /\ last_search_text' = t
            /\ timer' = TimerInterval
            /\ burst' = IF timer = Inactive THEN 1 ELSE (IF burst < MaxBurst THEN burst + 1 ELSE MaxBurst)
            /\ runs' = IF timer = Inactive THEN 0 ELSE runs
    /\ UNCHANGED <<pc, query, process, rows, status, sortColumn, sortOrder>>

\* time passes on the armed timer
Tick ==
    /\ pc = "idle"
    /\ timer > 0
    /\ timer' = Max(0, timer - TickMs)
    /\ noop' = FALSE
    /\ reveal' = ""
    /\ UNCHANGED <<arg_bytes, formatted>>
    /\ UNCHANGED <<text, last_search_text, pc, query, process, rows, status,
                   sortColumn, sortOrder, burst, runs>>

Repeating == TimerInterval

\* setSingleShot(True): the timer is idle once its timeout was delivered
AfterTimeout == Inactive

SearchAlways(search_text) == FALSE

\* if not search_text:
NothingToSearch(search_text) == search_text = <<>>

KeepItems(items) == items

\* self.result_tree.clear()
ClearItems(items) == <<>>

\* timeout -> perform_search, up to the call of subprocess.run
TimerExpiry ==
    /\ pc = "idle"
    /\ timer = 0
    /\ runs < MaxRuns
    /\ timer' = AfterTimeout
    /\ runs' = runs + 1
    /\ noop' = FALSE
    /\ reveal' = ""
    /\ UNCHANGED <<arg_bytes, formatted>>
    /\ LET search_text == strip(text)
       IN  IF NothingToSearch(search_text)
           THEN /\ rows' = ClearItems(rows)
                /\ status' = StatusEmpty
                /\ query' = search_text
                /\ burst' = 0
                /\ UNCHANGED pc
           ELSE /\ status' = StatusSearching
                /\ rows' = ClearItems(rows)
                /\ query' = search_text
                /\ pc' = "mdfind"
                /\ UNCHANGED burst
    /\ UNCHANGED <<text, last_search_text, process, sortColumn, sortOrder>>

----------------------------------------------------------------------------
(* The search *)

Outputs == UNION {[1..n -> Lines] : n \in 0..MaxOut}

RECURSIVE NonBlankFrom(_, _)
NonBlankFrom(lines, i) ==
    IF i > Len(lines) THEN <<>>
    ELSE (IF strip(lines[i]) # <<>> THEN <<lines[i]>> ELSE <<>>)
         \o NonBlankFrom(lines, i + 1)

\* [path for path in process.stdout.splitlines() if path.strip()]
Results(stdout) == NonBlankFrom(stdout, 1)

\* what a returning subprocess.run and the os.stat calls that follow can
\* answer: an exit status, the output, the diagnostic text of a failure, and
\* one os.stat answer for each path of the results (no os.stat call follows a
\* non-zero exit status)
Returned ==
    UNION { UNION { { [ returncode |-> rc, stdout |-> out,
                        stderr |-> IF rc = 0 THEN <<>> ELSE err,
                        stat |-> [i \in 1..Len(Results(out)) |->
                                     os_stat(Results(out)[i], st[i])],
                        exc |-> "" ] :
                      st \in [1..Len(Results(out)) ->
                                IF rc = 0 THEN StatOutcomes ELSE {""}],
                      err \in Diagnostics } :
                    out \in Outputs } :
            rc \in {0, 1} }

\* subprocess.run returns or raises; the answers of the os.stat calls to come
\* are drawn here
FacilityReturns ==
    /\ pc = "mdfind"
    /\ process' \in Returned \cup {RunRaises}
    /\ pc' = "returned"
    /\ noop' = FALSE
    /\ reveal' = ""
    /\ UNCHANGED <<arg_bytes, formatted>>
    /\ UNCHANGED <<text, last_search_text, timer, query, rows, status,
                   sortColumn, sortOrder, burst, runs>>

CaughtNotFound(err) == err = "FileNotFoundError"

\* except (FileNotFoundError, PermissionError): continue
Caught(err) == err \in {"FileNotFoundError", "PermissionError"}

RECURSIVE Populate_prepend(_, _, _, _)
Populate_prepend(results, stat, i, acc) ==
    IF i > Len(results) THEN [items |-> acc, raised |-> ""]
    ELSE IF stat[i].err = ""
    THEN Populate_prepend(results, stat, i + 1,
                          <<NewItem(results[i], stat[i])>> \o acc)
    ELSE IF stat[i].err \in {"FileNotFoundError", "PermissionError"}
    THEN Populate_prepend(results, stat, i + 1, acc)
    ELSE [items |-> acc, raised |-> stat[i].err]

\* the loop over the results: the items added, and the exception that ended it
RECURSIVE Populate(_, _, _, _)
Populate(results, stat, i, acc) ==
    IF i > Len(results) THEN [items |-> acc, raised |-> ""]
    ELSE IF stat[i].err = ""
    THEN Populate(results, stat, i + 1, Append(acc, NewItem(results[i], stat[i])))
    ELSE IF Caught(stat[i].err)
    THEN Populate(results, stat, i + 1, acc)
    ELSE [items |-> acc, raised |-> stat[i].err]

\* count = len(results)
Count(results, items) == Len(results)

StatusAfterNoElse(count) ==
    IF count > 0 THEN StatusFound(count) ELSE StatusSearching

\* if count > 0: ... else: ...
StatusAfter(count) ==
    IF count > 0 THEN StatusFound(count) ELSE StatusNoResults

NeverFailed(returncode) == FALSE

\* if process.returncode != 0: raise
Failed(returncode) == returncode # 0

\* perform_search from the return of subprocess.run to its end, and the sort
\* the tree makes of the items added
ProcessOutput ==
    /\ pc = "returned"
    /\ IF process.exc # ""
       THEN /\ status' = StatusSearchError(StrOfError(process.exc))
            /\ rows' = rows
       ELSE IF Failed(process.returncode)
       THEN /\ status' = StatusSearchError(SearchFailed(process.stderr))
            /\ rows' = rows
       ELSE LET results == Results(process.stdout)
                done == Populate(results, process.stat, 1, <<>>)
                count == Count(results, done.items)
            IN  /\ rows' = SortItems(rows \o done.items, sortColumn, sortOrder)
                /\ status' = IF done.raised # ""
                             THEN StatusSearchError(StrOfError(done.raised))
                             ELSE StatusAfter(count)
    /\ pc' = "idle"
    /\ process' = NoProcess
    /\ burst' = 0
    /\ noop' = FALSE
    /\ reveal' = ""
    /\ UNCHANGED <<arg_bytes, formatted>>
    /\ UNCHANGED <<text, last_search_text, timer, query, sortColumn, sortOrder, runs>>

----------------------------------------------------------------------------
(* The table: sorting, selection, activation *)

\* setSortingEnabled(True): a click on a section of the header sorts by it,
\* ascending, and a click on the section sorted by reverses the order
HeaderClicked(column) ==
    /\ pc = "idle"
    /\ sortColumn' = column
    /\ sortOrder' = IF column = sortColumn /\ sortOrder = "Ascending"
                    THEN "Descending" ELSE "Ascending"
    /\ rows' = SortItems(rows, sortColumn', sortOrder')
    /\ noop' = FALSE
    /\ reveal' = ""
    /\ UNCHANGED <<arg_bytes, formatted>>
    /\ UNCHANGED <<text, last_search_text, timer, pc, query, process, status,
                   burst, runs>>

update_status_for_item(item) ==
    IF item.path # <<>>
    THEN status' = StatusFileSize(item.size)
    ELSE status' = status

on_item_clicked(i) ==
    /\ pc = "idle"
    /\ i \in 1..Len(rows)
    /\ update_status_for_item(rows[i])
    /\ noop' = FALSE
    /\ reveal' = ""
    /\ UNCHANGED <<arg_bytes, formatted>>
    /\ UNCHANGED <<text, last_search_text, timer, pc, query, process, rows,
                   sortColumn, sortOrder, burst, runs>>

on_current_item_changed(i) ==
    /\ pc = "idle"
    /\ i \in 1..Len(rows)
    /\ update_status_for_item(rows[i])
    /\ noop' = FALSE
    /\ reveal' = ""
    /\ UNCHANGED <<arg_bytes, formatted>>
    /\ UNCHANGED <<text, last_search_text, timer, pc, query, process, rows,
                   sortColumn, sortOrder, burst, runs>>

double_click_searches(i, outcome) ==
    /\ pc = "idle"
    /\ i \in 1..Len(rows)
    /\ timer' = TimerInterval
    /\ reveal' = ""
    /\ noop' = FALSE
    /\ UNCHANGED <<text, last_search_text, pc, query, process, rows, status,
                   sortColumn, sortOrder, burst, runs, arg_bytes, formatted>>

\* what subprocess.run(["open", "-R", path]) can do: open exits with status 0,
\* open exits with another status (the file is gone), or the call raises
RevealOutcomes == {"ok", "exit", "raises"}

\* the CompletedProcess of open -R is dropped: only a raised exception is seen
on_item_double_clicked(i, outcome) ==
    /\ pc = "idle"
    /\ i \in 1..Len(rows)
    /\ IF rows[i].path # <<>> /\ outcome = "raises"
       THEN status' = StatusOpenFailed(StrOfError("OSError"))
       ELSE status' = status
    /\ reveal' = IF rows[i].path # <<>> /\ outcome # "ok" THEN "failed" ELSE ""
    /\ noop' = FALSE
    /\ UNCHANGED <<arg_bytes, formatted>>
    /\ UNCHANGED <<text, last_search_text, timer, pc, query, process, rows,
                   sortColumn, sortOrder, burst, runs>>

----------------------------------------------------------------------------

Next ==
    \/ \E t \in Texts : on_search_text_changed(t)
    \/ Tick
    \/ TimerExpiry
    \/ FacilityReturns
    \/ ProcessOutput
    \/ \E c \in Columns : HeaderClicked(c)
    \/ \E i \in 1..MaxOut : on_item_clicked(i)
    \/ \E i \in 1..MaxOut : on_current_item_changed(i)
    \/ \E i \in 1..MaxOut, outcome \in RevealOutcomes :
          on_item_double_clicked(i, outcome)

Spec == Init /\ [][Next]_vars

----------------------------------------------------------------------------
(* Steps of the handlers, as the claims name them *)

\* a text change that the debouncer takes up
Keystroke == last_search_text' # last_search_text

\* the timeout is delivered: perform_search starts
Expiry == runs' = runs + 1

\* perform_search ends after the facility has answered
Completion == pc = "returned" /\ pc' = "idle"

Spaces(n) == [i \in 1..n |-> 32]

\* q is s without its leading and trailing spaces
StrippedOf(q, s) ==
    /\ \E i, j \in 0..Len(s) : s = Spaces(i) \o q \o Spaces(j)
    /\ q # <<>> => (q[1] # 32 /\ q[Len(q)] # 32)

----------------------------------------------------------------------------
(* C1..C10 *)

\* C1: a burst of text changes, each arriving while the timer of the previous
\* one is pending, gets one run of perform_search: a keystroke runs no search
\* and leaves one armed timer, and a search starts only by the expiry of that
\* timer, which leaves no timer armed.
C1_OneSearchPerBurst ==
    /\ [](/\ runs <= 1
          /\ timer # Inactive => (runs = 0 /\ burst >= 1 /\ pc = "idle")
          /\ pc # "idle" => (runs = 1 /\ timer = Inactive))
    /\ [][/\ Keystroke =>
               /\ timer' = TimerInterval
               /\ runs' = 0
               /\ UNCHANGED <<pc, query, rows, status>>
          /\ (Expiry \/ pc' = "mdfind") =>
               /\ timer = 0
               /\ timer' = Inactive
               /\ runs = 0 /\ runs' = 1]_vars

C1_Witness == burst = 2 /\ runs = 1 /\ pc = "mdfind"

\* C2 as stated: the query handed to the facility is the text box content,
\* character for character.
C2_LiteralQuery == pc = "mdfind" => query = text

\* C2 as amended: the query handed to the facility is the text box content at
\* the expiry without its leading and trailing whitespace, and an expiry hands
\* a query exactly when that content is not all whitespace.
C2_StrippedQuery ==
    /\ [](pc = "mdfind" => (query # <<>> /\ StrippedOf(query, text)))
    /\ [][Expiry =>
            (pc' = "mdfind" <=> \E i \in 1..Len(text) : text[i] # 32)]_vars

C2_Witness == pc = "mdfind" /\ query # text /\ Len(query) < Len(text)

\* C3: a call of on_search_text_changed with the text last observed changes
\* nothing: the timer keeps its state and its deadline, and last_search_text,
\* the rows and the status stay.
C3_SameTextNoop ==
    [][noop' => UNCHANGED <<timer, last_search_text, rows, status, pc, query,
                            burst, runs>>]_vars

C3_Witness == noop /\ timer = TimerInterval - TickMs /\ rows # <<>>

\* C4 as stated: right after the text change to empty is handled, the table
\* has no rows and the status is empty.
C4_ImmediateClear ==
    [][(Keystroke /\ text' = <<>>) => (rows' = <<>> /\ status' = StatusEmpty)]_vars

\* C4 as amended: the text change to empty leaves the rows and the status and
\* starts the timer; the expiry of that timer with the text box still empty
\* clears the rows and the status and the facility is not invoked.
C4_DeferredClear ==
    [][/\ (Keystroke /\ text' = <<>>) =>
            /\ rows' = rows /\ status' = status
            /\ timer' = TimerInterval /\ pc' = "idle"
       /\ (Expiry /\ text = <<>>) =>
            /\ rows' = <<>> /\ status' = StatusEmpty
            /\ pc' = "idle" /\ query' = <<>>]_vars

C4_Witness == text = <<>> /\ timer = TimerInterval /\ rows # <<>> /\ status # StatusEmpty

\* C5: an expiry with an empty text box clears the rows and the status and
\* returns; the facility is never invoked with an empty query.
C5_EmptyNeverSearched ==
    /\ [](pc # "idle" => query # <<>>)
    /\ [][(Expiry /\ text = <<>>) =>
            /\ rows' = <<>> /\ status' = StatusEmpty
            /\ pc' = "idle" /\ query' = <<>> /\ process' = NoProcess]_vars

C5_Witness ==
    /\ text = <<>> /\ runs = 1 /\ timer = Inactive /\ pc = "idle"
    /\ rows = <<>> /\ status = StatusEmpty

\* C6: with the table sorted ascending by the size column, the rows are in
\* non-decreasing order of their raw size_bytes.
C6_SizeSortNumeric ==
    (pc = "idle" /\ sortColumn = 2 /\ sortOrder = "Ascending") =>
        \A i, j \in 1..Len(rows) : i < j => ~FileTreeWidget_lt(rows[j], rows[i], 2)

\* C7: the count in the status line is the number of rows in the table, and
\* the 'no results' message is shown exactly when the table is empty.
C7_CountMatchesRows ==
    /\ \A n \in 0..(MaxOut + 1) : status = StatusFound(n) => Len(rows) = n
    /\ status = StatusNoResults => rows = <<>>

\* the place in the results where the loop is left by an exception that is not
\* caught in it; past the end when there is none
LoopEnd(stat) ==
    LET other == {i \in DOMAIN stat : stat[i].err \notin (Unreadable \cup {""})}
    IN  IF other = {} THEN Len(stat) + 1
        ELSE CHOOSE i \in other : \A j \in other : i <= j

\* C8: a path whose attributes cannot be read (does not exist, permission
\* denied) gets no row and no error, and the loop goes on: the rows of the
\* table are those of the readable paths the loop comes to, one each.
C8_UnreadableDropped ==
    [][(Completion /\ process.exc = "" /\ process.returncode = 0) =>
          LET results == SelectSeq(process.stdout, LAMBDA l : l \notin BlankLines)
              stat == process.stat
              readable == {i \in 1..Len(results) :
                              i < LoopEnd(stat) /\ stat[i].err = ""}
              Key(i) == <<results[i], stat[i].st_size, stat[i].st_mtime>>
              RowKey(r) == <<r.path, r.size, r.mtime>>
          IN  /\ Len(rows') = Cardinality(readable)
              /\ \A i \in readable :
                   Cardinality({k \in DOMAIN rows' : RowKey(rows'[k]) = Key(i)})
                     = Cardinality({j \in readable : Key(j) = Key(i)})
              /\ LoopEnd(stat) > Len(results) =>
                   ~IsPrefix(SearchErrorPrefix, status')]_vars

C8_Witness ==
    /\ pc = "idle" /\ status = StatusFound(2) /\ Len(rows) = 1

\* C9: a non-zero exit status of the facility ends the search with an error
\* message that holds the facility's diagnostic text, and with an empty table.
C9_FailureEmptyTable ==
    [][(Completion /\ process.returncode # 0) =>
          /\ rows' = <<>>
          /\ IsPrefix(SearchErrorPrefix, status')
          /\ process.stderr # <<>> /\ Contains(status', process.stderr)]_vars

C9_Witness ==
    /\ pc = "idle" /\ rows = <<>>
    /\ \E d \in Diagnostics : status = StatusSearchError(SearchFailed(d))

\* C10: a search replaces the result set: it starts by emptying the table, and
\* when it ends every row of the table comes from a line of the output of its
\* own invocation of the facility, no path more often than the output names it.
C10_ResultsReplaced ==
    /\ [](pc # "idle" => rows = <<>>)
    /\ [][/\ Expiry => rows' = <<>>
          /\ Completion =>
               \A k \in DOMAIN rows' :
                  /\ process.returncode = 0
                  /\ \E i \in DOMAIN process.stdout : process.stdout[i] = rows'[k].path
                  /\ Cardinality({m \in DOMAIN rows' : rows'[m].path = rows'[k].path})
                       <= Cardinality({i \in DOMAIN process.stdout :
                                          process.stdout[i] = rows'[k].path})]_vars

C10_Witness ==
    /\ pc = "idle" /\ Len(rows) = 2 /\ rows[1].path = rows[2].path
    /\ status = StatusFound(2)

-----------------------------------------------------------------------------

\* a row event that shows: a click or selection change wrote the size of a row,
\* or a double click did not get the file revealed
RowEvent ==
    \/ reveal' = "failed"
    \/ /\ status' # status
       /\ IsPrefix(FileSizePrefix, status') \/ IsPrefix(OpenFailedPrefix, status')

\* a click on a column header
SortEvent == <<sortColumn, sortOrder>>' # <<sortColumn, sortOrder>>

\* C11: clicking, selecting and double-clicking a row leave the rows (with
\* their raw size, timestamp and path), the debounce timer, last_search_text
\* and the search itself alone: a row event changes nothing but the status,
\* the rows change only when perform_search runs or a header is clicked, and
\* the timer is started only by a text change.
C11_RowEventsFrame ==
    /\ [][RowEvent =>
            UNCHANGED <<rows, timer, last_search_text, text, pc, query, process,
                        sortColumn, sortOrder>>]_vars
    /\ [][rows' # rows => (Expiry \/ Completion \/ SortEvent)]_vars
    /\ [][timer' > timer => Keystroke]_vars
    /\ [][last_search_text' # last_search_text => text' # text]_vars

\* a row was clicked and then double-clicked in vain, with both rows in place
C11_Witness ==
    /\ reveal = "failed"
    /\ IsPrefix(FileSizePrefix, status)
    /\ Len(rows) = 2
    /\ timer = Inactive

\* C12: when revealing the activated row fails, the status line says so.
\* The code does not keep this: open -R exiting with a non-zero status is a
\* failure that writes nothing.
C12_RevealFailureSurfaced ==
    reveal = "failed" => IsPrefix(OpenFailedPrefix, status)

\* C13: searches never overlap.  While perform_search runs no expiry is armed,
\* a search starts only on the expiry of the timer, and it starts only when
\* the search before it has returned and written rows and status.
C13_OneSearchAtATime ==
    /\ [](pc # "idle" => timer = Inactive)
    /\ [](pc = "idle" => process = NoProcess)
    /\ [][(pc' = "mdfind" /\ pc # "mdfind") =>
            /\ Expiry
            /\ timer = 0
            /\ pc = "idle"
            /\ status # StatusSearching]_vars
    /\ [][Expiry => (pc = "idle" /\ process = NoProcess)]_vars

\* the facility has answered a search while no expiry is armed
C13_Witness ==
    /\ pc = "returned"
    /\ timer = Inactive
    /\ process.returncode = 0
    /\ Len(process.stdout) = 2

-----------------------------------------------------------------------------
(* format_size_kb on its own: one call on a size drawn from Sizes *)

\* sizes beyond MaxSize, where the label gets its thousands separators
LargeSizes == {1023999, 1024000, 1048576, 1073741824}

Sizes == 0..MaxSize \cup LargeSizes

InitFormat ==
    /\ Constructed
    /\ arg_bytes \in Sizes
    /\ formatted = <<>>

FormatSize ==
    /\ formatted = <<>>
    /\ formatted' = format_size_kb(arg_bytes)
    /\ UNCHANGED <<text, last_search_text, timer, pc, query, process, rows, status,
                   sortColumn, sortOrder, burst, runs, noop, reveal, arg_bytes>>

NextFormat == FormatSize

SpecFormat == InitFormat /\ [][NextFormat]_vars

KBSuffix == <<32, 75, 66>>

\* the number a label shows: its digits read as a decimal numeral, separators
\* skipped; -1 when the label is not digits and separators followed by " KB"
RECURSIVE Numeral(_, _, _)
Numeral(s, i, acc) ==
    IF i > Len(s) THEN acc
    ELSE IF s[i] = 44 /\ i > 1 /\ i < Len(s) THEN Numeral(s, i + 1, acc)
    ELSE IF s[i] \in 48..57 THEN Numeral(s, i + 1, 10 * acc + (s[i] - 48))
    ELSE 0 - 1

ShownKB(label) ==
    IF Len(label) > 3 /\ SubSeq(label, Len(label) - 2, Len(label)) = KBSuffix
       /\ (Len(label) = 4 \/ label[1] # 48)
    THEN Numeral(SubSeq(label, 1, Len(label) - 3), 1, 0)
    ELSE 0 - 1

\* C14: for every size the label of format_size_kb shows max(1, size div 1024)
\* followed by " KB"; the sizes 0..2047 are all labelled "1 KB"; and a larger
\* size never shows a smaller number.
C14_SizeLabel ==
    formatted # <<>> =>
        /\ ShownKB(formatted) = (IF arg_bytes < KB THEN 1 ELSE arg_bytes \div KB)
        /\ arg_bytes < 2 * KB => formatted = <<49>> \o KBSuffix
        /\ \A smaller \in Sizes :
              (smaller < arg_bytes /\ (arg_bytes - smaller = 1 \/ arg_bytes > MaxSize))
                 => ShownKB(format_size_kb(smaller)) <= ShownKB(formatted)

\* the call on 2047 bytes, the largest size still labelled "1 KB"
C14_Witness ==
    /\ arg_bytes = 2 * KB - 1
    /\ formatted = <<49, 32, 75, 66>>

-----------------------------------------------------------------------------

\* C15: with the table sorted ascending by the modified-time column, the rows
\* are in non-decreasing order of their raw modification timestamps, also
\* where two timestamps share one displayed minute.
C15_TimeSortNumeric ==
    (pc = "idle" /\ sortColumn = 3 /\ sortOrder = "Ascending") =>
        \A i, j \in 1..Len(rows) : i < j => rows[i].mtime <= rows[j].mtime

\* the results the loop of perform_search makes rows of, as places in the
\* facility's output with its blank lines left out, in the order of the output
Kept(results, stat) ==
    SelectSeq([i \in 1..Len(results) |-> i],
              LAMBDA i : i < LoopEnd(stat) /\ stat[i].err = "")

\* C16: perform_search adds its rows in the order of the facility's output,
\* blank lines and unreadable paths left out, nothing reordered, nothing
\* merged.  The table shows the order in which they were added when it is
\* sorted by a column in which all rows tie (the directory, here).
C16_FacilityOrderKept ==
    [][(Completion /\ process.exc = "" /\ process.returncode = 0) =>
          LET results == SelectSeq(process.stdout, LAMBDA l : l \notin BlankLines)
              kept == Kept(results, process.stat)
          IN  /\ Len(rows') = Len(kept)
              /\ sortColumn = 1 =>
                    \A k \in 1..Len(kept) :
                       /\ rows'[k].path = results[kept[k]]
                       /\ rows'[k].size = process.stat[kept[k]].st_size
                       /\ rows'[k].mtime = process.stat[kept[k]].st_mtime]_vars

\* two rows in the facility's order /d/B, /d/a, which no sort by name gives
\* while the table is sorted by directory
C16_Witness ==
    /\ pc = "idle" /\ sortColumn = 1 /\ Len(rows) = 2
    /\ status = StatusFound(2)
    /\ rows[1].path = <<47, 100, 47, 66>>
    /\ rows[2].path = <<47, 100, 47, 97>>

\* C17: a search that ended with an error message left the table empty,
\* whatever failed.
C17_ErrorMeansEmpty ==
    (pc = "idle" /\ IsPrefix(SearchErrorPrefix, status)) => rows = <<>>

\* perform_search returns: from the branch of the empty text, or at its end
Returns == Completion \/ (Expiry /\ pc' = "idle")

\* C18: the in-progress message is never left behind.  perform_search returns
\* with the status empty, a count, the 'no results' message or an error
\* message, and no handler that runs afterwards writes the in-progress message.
C18_SearchingNotLeft ==
    /\ [](pc = "idle" => status # StatusSearching)
    /\ [][Returns =>
            \/ status' \in {StatusEmpty, StatusNoResults}
            \/ \E n \in 1..MaxOut : status' = StatusFound(n)
            \/ IsPrefix(SearchErrorPrefix, status')]_vars

\* a search that found nothing has returned
C18_Witness ==
    /\ pc = "idle" /\ query # <<>> /\ status = StatusNoResults

-----------------------------------------------------------------------------
(* The debouncer and the search, with a timer that fires and a facility that
   answers.  The table is left alone: clicks on rows and headers touch neither
   the timer nor perform_search. *)

NextLive ==
    \/ \E t \in Texts : on_search_text_changed(t)
    \/ Tick
    \/ TimerExpiry
    \/ FacilityReturns
    \/ ProcessOutput

\* The timer counts down and fires; the facility answers; and perform_search,
\* which does not block after the answer, runs to its end.  At "mdfind" and
\* at "returned" one step is enabled, always, and it is the only one there:
\* its weak fairness is stated on the position.
SpecLive ==
    /\ Init /\ [][NextLive]_vars
    /\ WF_vars(Tick)
    /\ WF_vars(TimerExpiry)
    /\ []<>(pc # "mdfind")
    /\ []<>(pc # "returned")

\* nothing pending: no expiry armed, no search running
AtRest == timer = Inactive /\ pc = "idle"

\* C19: no edit is lost.  At rest the last run of perform_search used the text
\* the box holds now (stripped); and once the text is changed no more, the
\* window comes to rest, with the final text searched (or the window cleared,
\* when that text strips to nothing), and stays so.
C19_FinalTextSearched ==
    /\ [](AtRest => (last_search_text = text /\ query = strip(text)))
    /\ (<>[][~Keystroke]_vars) => <>[](AtRest /\ query = strip(text))

\* at rest after the search for the text "a ", its rows on display
C19_Witness ==
    /\ AtRest
    /\ text = <<97, 32>> /\ query = <<97>>
    /\ rows # <<>>

\* C20: with nothing pending and the text box empty, the table is empty and
\* so is the status line.
C20_EmptyTextEmptyWindow ==
    (AtRest /\ text = <<>>) => (rows = <<>> /\ status = StatusEmpty)

\* back at the empty text after a search, sorted by another column
C20_Witness ==
    /\ AtRest /\ text = <<>> /\ runs > 0 /\ sortColumn = 3
    /\ rows = <<>> /\ status = StatusEmpty

=============================================================================
